---- MODULE Spec2Model ----
(***************************************************************************)
(* The booking lifecycle of the local-service marketplace: the booking     *)
(* routes (routes/bookings.js, kept in src/server/routes/messages.js from  *)
(* line 82 on), the vendor-scoped status route (routes/vendors.js, kept in *)
(* src/unnamed/part_000), the dispute resolution route (routes/admin.js)   *)
(* and the Booking schema (models/Booking.js, kept in src/unnamed/part_002)*)
(*                                                                         *)
(* A handler is an operator from the loaded document and the request to an *)
(* outcome [code, error, doc, save]: the HTTP status, the error text, the  *)
(* in-memory document when the handler returns, and whether booking.save() *)
(* ran.  An action serves one request: it persists the outcome's document  *)
(* when save ran and records the response in `last`.                       *)
(***************************************************************************)
EXTENDS Naturals, Sequences, FiniteSets, TLC

VARIABLES
    db,     \* the bookings collection: booking id -> stored document
    now,    \* the server clock (Date.now()), in minutes
    last,   \* the last request served and its response
    served, \* the number of requests served so far
    inflight, \* the requests between their findById and their save
    active, \* the accounts whose isActive flag is true
    wire,   \* what left the server with the last request: the events
            \* published, the mail sent, the contact fields of the response
    rooms   \* the channel: connection -> the rooms it is a member of

vars == <<db, now, last, served, inflight, active, wire, rooms>>

-----------------------------------------------------------------------------
(* Accounts.  req.user is the account authenticateToken resolved.          *)

Users == {"cust", "cust2", "vend", "vend2", "admin", "admin2"}

Role(u) ==
    CASE u \in {"cust", "cust2"} -> "customer"
      [] u \in {"vend", "vend2"} -> "vendor"
      [] OTHER -> "admin"

\* User.find({ role: 'admin' })
Admins == {u \in Users : Role(u) = "admin"}

\* Vendor.findOne({ user }) with verificationStatus 'verified'
VerifiedVendors == {"vend", "vend2"}

BookingIds == {"b1"}

-----------------------------------------------------------------------------
(* Values of the Booking schema.                                           *)

Undefined == "undefined"          \* a path that is not set
NoDate == 0                       \* an unset Date path

StatusEnum ==
    {"pending", "confirmed", "in-progress", "completed", "cancelled",
     "verification-pending", "rejected", "reported"}

PaymentEnum ==
    {"pending", "paid_to_platform", "payout_pending", "paid_to_vendor",
     "refund_pending", "refunded"}

\* Math.floor(100000 + Math.random() * 900000).toString()
OtpCodes == {"100000", "999999"}

\* 10 * 60 * 1000 ms
OtpWindow == 10

NoDispute ==
    [status |-> Undefined, raisedBy |-> Undefined, reason |-> Undefined,
     description |-> Undefined, resolution |-> Undefined,
     resolvedBy |-> Undefined, resolvedAt |-> NoDate]

NoAddress == [street |-> Undefined, city |-> Undefined]

NoRating == [score |-> 0, review |-> Undefined]

\* a timeline entry {status, note}; the note is a template with its holes
Entry(status, text, arg, by) ==
    [status |-> status, note |-> [text |-> text, arg |-> arg, by |-> by]]

\* a document of the schema with its defaults and nothing else set
BlankBooking ==
    [customer |-> Undefined, vendor |-> Undefined, service |-> Undefined,
     price |-> Undefined, status |-> "pending",
     scheduledDate |-> Undefined, address |-> NoAddress,
     payment |-> [status |-> "pending"],
     notes |-> [customerNotes |-> Undefined, vendorNotes |-> Undefined],
     rating |-> NoRating,
     completionOtp |-> Undefined, completionOtpExpires |-> NoDate,
     dispute |-> NoDispute,
     timeline |-> << >>]

\* Mongoose materialises a nested path of the schema as an object, so
\* `booking.dispute` and `booking.payment` are truthy on every document.
NestedPathTruthy(path) == TRUE

-----------------------------------------------------------------------------
(* Outcomes.                                                               *)

\* res.status(code).json({ error }) before any save
Reject(code, error, doc) ==
    [code |-> code, error |-> error, doc |-> doc, save |-> FALSE,
     otp |-> Undefined]

\* await booking.save(); res.json(booking): the body carries the document,
\* its completionOtp included
Saved(code, doc) ==
    [code |-> code, error |-> "", doc |-> doc, save |-> TRUE,
     otp |-> doc.completionOtp]

Exists(id) == id \in DOMAIN db

Loaded(id) == IF Exists(id) THEN db[id] ELSE BlankBooking

\* mutant: the document is written before the handler's checks decide
PersistUnconditional(id, out) == (id :> out.doc) @@ db

\* await booking.save(): the document replaces the stored one
Persist(id, out) ==
    IF out.save THEN (id :> out.doc) @@ db ELSE db

Serve(cmd, u, id, out) ==
    /\ db' = Persist(id, out)
    /\ last' = [cmd |-> cmd, actor |-> u, code |-> out.code,
                error |-> out.error, otp |-> out.otp]
    /\ served' = served + 1
    /\ UNCHANGED <<now, inflight, active, wire, rooms>>

Push(doc, entry) == [doc EXCEPT !.timeline = Append(@, entry)]

-----------------------------------------------------------------------------
(* POST /api/bookings                                                      *)

\* the paths of the schema that must be set, and the enum of status
SchemaValid(doc) ==
    /\ doc.customer # Undefined
    /\ doc.vendor # Undefined
    /\ doc.service # Undefined
    /\ doc.scheduledDate # Undefined
    /\ doc.status \in StatusEnum
    /\ doc.payment.status \in PaymentEnum
    /\ doc.rating.score \in 0..5

\* new Booking({ ...req.body, customer, payment })
NewBooking(body, customerId) ==
    [BlankBooking EXCEPT
        !.vendor = body.vendor,
        !.service = body.service,
        !.scheduledDate = body.scheduledDate,
        !.price = body.price,
        !.address = body.address,
        !.notes.customerNotes = body.notes,
        !.status = IF body.status = Undefined THEN "pending" ELSE body.status,
        !.completionOtp = body.completionOtp,
        !.customer = customerId,
        !.payment = [status |-> "paid_to_platform"]]

CreateBookingOut(u, body) ==
    LET role == Role(u)
        customerId == IF role = "customer" THEN u ELSE body.customer
        doc == Push(NewBooking(body, customerId),
                    Entry("pending", "Booking created by", "", role))
    IN  IF role # "customer" /\ role # "admin"
        THEN Reject(403, "Only customers or admins can book services.", BlankBooking)
        ELSE IF role = "admin" /\ body.customer = Undefined
        THEN Reject(400, "Admin must specify a customer for the booking.", BlankBooking)
        ELSE IF ~SchemaValid(doc)
        THEN Reject(500, "validation", doc)
        ELSE Saved(201, doc)

-----------------------------------------------------------------------------
(* PATCH /api/bookings/:id/status                                          *)

validStatuses ==
    {"pending", "confirmed", "in-progress", "completed", "cancelled",
     "verification-pending", "rejected"}

allowedVendorStatuses ==
    {"confirmed", "rejected", "in-progress", "verification-pending",
     "cancelled", "completed"}

IsCustomer(b, u) == b.customer = u
IsVendor(b, u) == b.vendor = u
IsAdmin(u) == Role(u) = "admin"

\* mutant: the vendor's code is required but not compared
OtpVerificationErrorNoCompare(b, u, status, otp) ==
    IF status = "completed" /\ b.status = "verification-pending"
    THEN IF IsVendor(b, u)
         THEN IF otp = Undefined THEN "OTP is required to complete the booking."
              ELSE ""
         ELSE IF ~IsAdmin(u)
              THEN "Only the vendor or an admin can complete this booking."
              ELSE ""
    ELSE ""

\* "OTP Verification Logic": the error of the block, "" when it lets the
\* request through
OtpVerificationError(b, u, status, otp) ==
    IF status = "completed" /\ b.status = "verification-pending"
    THEN IF IsVendor(b, u)
         THEN IF otp = Undefined THEN "OTP is required to complete the booking."
              ELSE IF b.completionOtp # otp THEN "Invalid OTP provided."
              ELSE ""
         ELSE IF ~IsAdmin(u)
              THEN "Only the vendor or an admin can complete this booking."
              ELSE ""
    ELSE ""

\* mutant: the code is cleared but the payment is left as it is
AfterOtpVerificationNoPayout(b, status) ==
    IF status = "completed" /\ b.status = "verification-pending"
    THEN [b EXCEPT !.completionOtp = Undefined]
    ELSE b

\* the document after the block: code cleared, payment ready for payout
AfterOtpVerification(b, status) ==
    IF status = "completed" /\ b.status = "verification-pending"
    THEN [b EXCEPT !.completionOtp = Undefined,
                   !.payment.status =
                       IF NestedPathTruthy("payment") THEN "payout_pending" ELSE @]
    ELSE b

\* mutant: the vendor may complete from any status
RoleValidationNoDirectCheck(b, u, status) ==
    IF IsCustomer(b, u) /\ status # "cancelled"
    THEN [code |-> 403, error |-> "As a customer, you can only cancel a booking."]
    ELSE IF IsCustomer(b, u) /\ b.status \in {"completed", "cancelled", "rejected"}
    THEN [code |-> 400, error |-> "Cannot cancel a booking that is already finished."]
    ELSE IF IsVendor(b, u) /\ status \notin allowedVendorStatuses
    THEN [code |-> 403, error |-> "As a vendor, you cannot set the status."]
    ELSE [code |-> 0, error |-> ""]

\* mutant: the customer may cancel a finished booking
RoleValidationCancelAnywhere(b, u, status) ==
    IF IsCustomer(b, u) /\ status # "cancelled"
    THEN [code |-> 403, error |-> "As a customer, you can only cancel a booking."]
    ELSE IF IsVendor(b, u) /\ status \notin allowedVendorStatuses
    THEN [code |-> 403, error |-> "As a vendor, you cannot set the status."]
    ELSE IF IsVendor(b, u) /\ status = "completed" /\ b.status # "verification-pending"
    THEN [code |-> 400, error |-> "Cannot complete a booking directly."]
    ELSE [code |-> 0, error |-> ""]

\* "Role-based status transition validation": [code, error], code 0 when
\* the request passes
RoleValidation(b, u, status) ==
    IF IsCustomer(b, u) /\ status # "cancelled"
    THEN [code |-> 403, error |-> "As a customer, you can only cancel a booking."]
    ELSE IF IsCustomer(b, u) /\ b.status \in {"completed", "cancelled", "rejected"}
    THEN [code |-> 400, error |-> "Cannot cancel a booking that is already finished."]
    ELSE IF IsVendor(b, u) /\ status \notin allowedVendorStatuses
    THEN [code |-> 403, error |-> "As a vendor, you cannot set the status."]
    ELSE IF IsVendor(b, u) /\ status = "completed" /\ b.status # "verification-pending"
    THEN [code |-> 400, error |-> "Cannot complete a booking directly."]
    ELSE [code |-> 0, error |-> ""]

\* the code generated on the way into verification-pending
WithGeneratedOtp(b, status, generatedOtp, t) ==
    IF status = "verification-pending"
    THEN [b EXCEPT !.completionOtp = generatedOtp,
                   !.completionOtpExpires = t + OtpWindow]
    ELSE b

\* booking.status = status; the notes by req.user.role; the timeline entry
ApplyStatus(b, u, status, notes) ==
    LET b1 == [b EXCEPT !.status = status]
        b2 == IF notes = Undefined THEN b1
              ELSE IF Role(u) = "customer"
              THEN [b1 EXCEPT !.notes.customerNotes = notes]
              ELSE IF Role(u) = "vendor"
              THEN [b1 EXCEPT !.notes.vendorNotes = notes]
              ELSE b1
    IN  Push(b2, IF notes # Undefined
                 THEN Entry(status, notes, "", "")
                 ELSE Entry(status, "Status updated to", status, Role(u)))

ChangeStatusOut(found, b, u, status, notes, otp, generatedOtp, t) ==
    IF status \notin validStatuses
    THEN Reject(400, "Invalid status provided", b)
    ELSE IF ~found
    THEN Reject(404, "Booking not found", b)
    ELSE IF ~IsCustomer(b, u) /\ ~IsVendor(b, u) /\ ~IsAdmin(u)
    THEN Reject(403, "Access denied. You cannot update this booking.", b)
    ELSE IF OtpVerificationError(b, u, status, otp) # ""
    THEN Reject(IF IsVendor(b, u) THEN 400 ELSE 403,
                OtpVerificationError(b, u, status, otp), b)
    ELSE LET b1 == AfterOtpVerification(b, status)
             v == RoleValidation(b1, u, status)
         IN  IF v.code # 0
             THEN Reject(v.code, v.error, b1)
             ELSE Saved(200, ApplyStatus(WithGeneratedOtp(b1, status, generatedOtp, t),
                                         u, status, notes))

-----------------------------------------------------------------------------
(* PATCH /api/vendors/bookings/:bookingId/status                           *)

vendorRouteStatuses ==
    {"confirmed", "in-progress", "verification-pending", "cancelled"}

\* authorizeRole(['vendor']) and checkVendorVerification: [code, error]
VendorGate(u) ==
    IF Role(u) # "vendor"
    THEN [code |-> 403, error |-> "Access denied"]
    ELSE IF u \notin VerifiedVendors
    THEN [code |-> 403, error |-> "Access Forbidden. Vendor not verified"]
    ELSE [code |-> 0, error |-> ""]

\* mutant: the vendor who sets the status takes the booking over
VendorStatusOutTakesOver(found, b, u, status, vendorNotes) ==
    IF VendorGate(u).code # 0
    THEN Reject(VendorGate(u).code, VendorGate(u).error, b)
    ELSE IF status \notin vendorRouteStatuses
    THEN Reject(400, "Invalid status update.", b)
    ELSE IF ~found
    THEN Reject(404, "Booking not found.", b)
    ELSE Saved(200, Push([b EXCEPT !.status = status, !.vendor = u],
                         Entry(status, "Status updated to", status, "")))

VendorStatusOut(found, b, u, status, vendorNotes) ==
    IF VendorGate(u).code # 0
    THEN Reject(VendorGate(u).code, VendorGate(u).error, b)
    ELSE IF status \notin vendorRouteStatuses
    THEN Reject(400, "Invalid status update.", b)
    ELSE IF ~found
    THEN Reject(404, "Booking not found.", b)
    ELSE LET b1 == [b EXCEPT !.status = status]
             b2 == IF vendorNotes # Undefined
                   THEN [b1 EXCEPT !.notes.vendorNotes = vendorNotes]
                   ELSE b1
         IN  Saved(200, Push(b2, IF vendorNotes # Undefined
                                 THEN Entry(status, vendorNotes, "", "")
                                 ELSE Entry(status, "Status updated to", status, "")))

-----------------------------------------------------------------------------
(* GET /api/bookings/:id/otp                                               *)

OtpStale(b, t) ==
    \/ b.completionOtp = Undefined
    \/ b.completionOtpExpires = NoDate
    \/ b.completionOtpExpires < t

\* mutant: every call regenerates the code
FetchOtpOutAlwaysFresh(found, b, u, generatedOtp, t) ==
    IF ~found
    THEN Reject(404, "Booking not found.", b)
    ELSE IF ~IsCustomer(b, u)
    THEN Reject(403, "Access denied. You are not the customer for this booking.", b)
    ELSE IF b.status # "verification-pending"
    THEN Reject(400, "OTP is only available for bookings pending verification.", b)
    ELSE Saved(200, [b EXCEPT !.completionOtp = generatedOtp,
                              !.completionOtpExpires = t + OtpWindow])

FetchOtpOut(found, b, u, generatedOtp, t) ==
    IF ~found
    THEN Reject(404, "Booking not found.", b)
    ELSE IF ~IsCustomer(b, u)
    THEN Reject(403, "Access denied. You are not the customer for this booking.", b)
    ELSE IF b.status # "verification-pending"
    THEN Reject(400, "OTP is only available for bookings pending verification.", b)
    ELSE IF OtpStale(b, t)
    THEN Saved(200, [b EXCEPT !.completionOtp = generatedOtp,
                              !.completionOtpExpires = t + OtpWindow])
    ELSE [code |-> 200, error |-> "", doc |-> b, save |-> FALSE,
          otp |-> b.completionOtp]

-----------------------------------------------------------------------------
(* PUT /api/bookings/:id                                                   *)

\* { ...booking.address, ...address }
MergeAddress(old, new) ==
    [street |-> IF new.street # Undefined THEN new.street ELSE old.street,
     city |-> IF new.city # Undefined THEN new.city ELSE old.city]

\* updateNote: which of (Date/Time changed), (Address changed), (Notes
\* added/changed) were appended
EditFlags(scheduledDate, address, notes) ==
    CASE scheduledDate # Undefined /\ address # NoAddress /\ notes # Undefined -> "DAN"
      [] scheduledDate # Undefined /\ address # NoAddress /\ notes = Undefined -> "DA"
      [] scheduledDate # Undefined /\ address = NoAddress /\ notes # Undefined -> "DN"
      [] scheduledDate # Undefined /\ address = NoAddress /\ notes = Undefined -> "D"
      [] scheduledDate = Undefined /\ address # NoAddress /\ notes # Undefined -> "AN"
      [] scheduledDate = Undefined /\ address # NoAddress /\ notes = Undefined -> "A"
      [] scheduledDate = Undefined /\ address = NoAddress /\ notes # Undefined -> "N"
      [] OTHER -> ""

\* mutant: a booking of any status may be edited
EditBookingOutAnyStatus(found, b, u, scheduledDate, address, notes) ==
    IF ~found
    THEN Reject(404, "Booking not found", b)
    ELSE IF ~IsCustomer(b, u) /\ ~IsAdmin(u)
    THEN Reject(403, "You are not authorized to edit this booking.", b)
    ELSE LET b1 == IF scheduledDate # Undefined
                   THEN [b EXCEPT !.scheduledDate = scheduledDate] ELSE b
             b2 == IF address # NoAddress
                   THEN [b1 EXCEPT !.address = MergeAddress(@, address)] ELSE b1
             b3 == IF notes # Undefined
                   THEN [b2 EXCEPT !.notes.customerNotes = notes] ELSE b2
         IN  Saved(200, Push(b3, Entry("updated", "Booking details updated",
                                       EditFlags(scheduledDate, address, notes),
                                       Role(u))))

EditBookingOut(found, b, u, scheduledDate, address, notes) ==
    IF ~found
    THEN Reject(404, "Booking not found", b)
    ELSE IF ~IsCustomer(b, u) /\ ~IsAdmin(u)
    THEN Reject(403, "You are not authorized to edit this booking.", b)
    ELSE IF b.status \notin {"pending", "confirmed"}
    THEN Reject(400, "Cannot edit a booking with this status.", b)
    ELSE LET b1 == IF scheduledDate # Undefined
                   THEN [b EXCEPT !.scheduledDate = scheduledDate] ELSE b
             b2 == IF address # NoAddress
                   THEN [b1 EXCEPT !.address = MergeAddress(@, address)] ELSE b1
             b3 == IF notes # Undefined
                   THEN [b2 EXCEPT !.notes.customerNotes = notes] ELSE b2
         IN  Saved(200, Push(b3, Entry("updated", "Booking details updated",
                                       EditFlags(scheduledDate, address, notes),
                                       Role(u))))

-----------------------------------------------------------------------------
(* POST /api/bookings/:id/dispute                                          *)

reportableStatuses == {"in-progress", "verification-pending", "completed"}

\* mutant: a dispute may be raised over an open one
RaiseDisputeOutNoOpenCheck(found, b, u, reason, description) ==
    IF reason = Undefined \/ description = Undefined
    THEN Reject(400, "Reason and description are required to report an issue.", b)
    ELSE IF ~found
    THEN Reject(404, "Booking not found.", b)
    ELSE IF ~IsCustomer(b, u) /\ ~IsVendor(b, u)
    THEN Reject(403, "You are not authorized to report an issue for this booking.", b)
    ELSE IF b.status \notin reportableStatuses
    THEN Reject(400, "Cannot report an issue for a booking with this status.", b)
    ELSE Saved(200,
            Push([b EXCEPT !.status = "reported",
                           !.dispute = [NoDispute EXCEPT !.raisedBy = u,
                                                         !.reason = reason,
                                                         !.description = description,
                                                         !.status = "open"]],
                 Entry("reported", "Dispute raised by", reason, Role(u))))

RaiseDisputeOut(found, b, u, reason, description) ==
    IF reason = Undefined \/ description = Undefined
    THEN Reject(400, "Reason and description are required to report an issue.", b)
    ELSE IF ~found
    THEN Reject(404, "Booking not found.", b)
    ELSE IF ~IsCustomer(b, u) /\ ~IsVendor(b, u)
    THEN Reject(403, "You are not authorized to report an issue for this booking.", b)
    ELSE IF b.status \notin reportableStatuses
    THEN Reject(400, "Cannot report an issue for a booking with this status.", b)
    ELSE IF NestedPathTruthy("dispute") /\ b.dispute.status = "open"
    THEN Reject(400, "An issue has already been reported for this booking and is currently open.", b)
    ELSE Saved(200,
            Push([b EXCEPT !.status = "reported",
                           !.dispute = [NoDispute EXCEPT !.raisedBy = u,
                                                         !.reason = reason,
                                                         !.description = description,
                                                         !.status = "open"]],
                 Entry("reported", "Dispute raised by", reason, Role(u))))

-----------------------------------------------------------------------------
(* PATCH /api/admin/disputes/:id/resolve                                   *)

\* mutant: the final status is not checked against completed, cancelled
ResolveDisputeOutAnyFinalStatus(found, b, u, resolution, finalStatus, t) ==
    IF ~IsAdmin(u)
    THEN Reject(403, "Access denied", b)
    ELSE IF resolution = Undefined \/ finalStatus = Undefined
    THEN Reject(400, "Resolution notes and a final status are required.", b)
    ELSE IF ~found \/ ~NestedPathTruthy("dispute")
    THEN Reject(404, "Disputed booking not found.", b)
    ELSE Saved(200, Push([b EXCEPT !.dispute.status = "resolved",
                                   !.dispute.resolution = resolution,
                                   !.dispute.resolvedBy = u,
                                   !.dispute.resolvedAt = t,
                                   !.status = finalStatus],
                         Entry("resolved", "Admin resolved the dispute.",
                               finalStatus, resolution)))

ResolveDisputeOut(found, b, u, resolution, finalStatus, t) ==
    IF ~IsAdmin(u)
    THEN Reject(403, "Access denied", b)
    ELSE IF resolution = Undefined \/ finalStatus = Undefined
    THEN Reject(400, "Resolution notes and a final status are required.", b)
    ELSE IF finalStatus \notin {"completed", "cancelled"}
    THEN Reject(400, "Invalid final status.", b)
    ELSE IF ~found \/ ~NestedPathTruthy("dispute")
    THEN Reject(404, "Disputed booking not found.", b)
    ELSE LET b1 == [b EXCEPT !.dispute.status = "resolved",
                             !.dispute.resolution = resolution,
                             !.dispute.resolvedBy = u,
                             !.dispute.resolvedAt = t,
                             !.status = finalStatus]
             b2 == IF NestedPathTruthy("payment")
                   THEN [b1 EXCEPT !.payment.status =
                            IF finalStatus = "completed" THEN "payout_pending"
                            ELSE IF finalStatus = "cancelled" THEN "refund_pending"
                            ELSE @]
                   ELSE b1
         IN  Saved(200, Push(b2, Entry("resolved", "Admin resolved the dispute.",
                                       finalStatus, resolution)))

-----------------------------------------------------------------------------
(* POST /api/bookings/:id/review                                           *)

SubmitReviewOut(found, b, u, score, review) ==
    IF ~found
    THEN Reject(404, "Booking not found", b)
    ELSE IF ~IsCustomer(b, u)
    THEN Reject(403, "Only the customer who made the booking can leave a review.", b)
    ELSE IF b.status # "completed"
    THEN Reject(400, "Can only review completed services.", b)
    ELSE IF b.rating.score # 0
    THEN Reject(400, "A review for this booking has already been submitted.", b)
    ELSE LET b1 == [b EXCEPT !.rating = [score |-> score, review |-> review]]
         IN  IF ~SchemaValid(b1) THEN Reject(500, "validation", b1)
             ELSE Saved(200, b1)

-----------------------------------------------------------------------------
(* Requests.                                                               *)

MaxRequests == 1

StatusInputs == validStatuses \cup {"reported"}
NotesInputs == {Undefined, "note"}
OtpInputs == {Undefined, "100001"} \cup OtpCodes
ReasonInputs == {Undefined, "r1"}
DescriptionInputs == {Undefined, "x1"}
ResolutionInputs == {Undefined, "res1"}
FinalStatusInputs == {Undefined, "completed", "cancelled", "pending"}
\* req.body.score: 0 stands for a body without a score
ScoreInputs == {0, 5, 6}
ReviewInputs == {Undefined, "rev"}

\* what the booking page posts; an admin adds the customer
ClientBody(customer) ==
    [customer |-> customer, vendor |-> "vend", service |-> "s1",
     scheduledDate |-> "d1", price |-> "p1",
     address |-> [street |-> "st1", city |-> "c1"],
     notes |-> Undefined, status |-> Undefined, completionOtp |-> Undefined]

\* a body that names paths of the schema the booking page never posts
PresetBody ==
    [ClientBody(Undefined) EXCEPT !.status = "completed",
                                  !.completionOtp = "100000"]

Bodies == {ClientBody(c) : c \in {Undefined, "cust"}} \cup {PresetBody}

\* the model serves MaxRequests requests
Room(id) == served < MaxRequests

CreateBooking(u, id, body) ==
    /\ Room(id)
    /\ ~Exists(id)
    /\ Serve("CreateBooking", u, id, CreateBookingOut(u, body))

ChangeStatus(u, id, status, notes, otp, generatedOtp) ==
    /\ Room(id)
    /\ Serve("ChangeStatus", u, id,
             ChangeStatusOut(Exists(id), Loaded(id), u, status, notes, otp,
                             generatedOtp, now))

VendorStatus(u, id, status, vendorNotes) ==
    /\ Room(id)
    /\ Serve("VendorStatus", u, id,
             VendorStatusOut(Exists(id), Loaded(id), u, status, vendorNotes))

FetchOtp(u, id, generatedOtp) ==
    /\ Room(id)
    /\ Serve("FetchOtp", u, id,
             FetchOtpOut(Exists(id), Loaded(id), u, generatedOtp, now))

EditBooking(u, id, scheduledDate, address, notes) ==
    /\ Room(id)
    /\ Serve("EditBooking", u, id,
             EditBookingOut(Exists(id), Loaded(id), u, scheduledDate, address, notes))

RaiseDispute(u, id, reason, description) ==
    /\ Room(id)
    /\ Serve("RaiseDispute", u, id,
             RaiseDisputeOut(Exists(id), Loaded(id), u, reason, description))

ResolveDispute(u, id, resolution, finalStatus) ==
    /\ Room(id)
    /\ Serve("ResolveDispute", u, id,
             ResolveDisputeOut(Exists(id), Loaded(id), u, resolution, finalStatus, now))

SubmitReview(u, id, score, review) ==
    /\ Room(id)
    /\ Serve("SubmitReview", u, id,
             SubmitReviewOut(Exists(id), Loaded(id), u, score, review))

NoRequest ==
    [cmd |-> "", actor |-> "", code |-> 0, error |-> "", otp |-> Undefined]

(* The bookings the store may hold when the model starts: the states along
   the two end-to-end runs of the lifecycle, each computed by the handlers
   from the one before it.
     run 1: create, confirm, start, request completion, complete with the code
     run 2: ... , the customer disputes the completed booking, the admin
            resolves the dispute as cancelled
     run 3: ... , the admin resolves the dispute as completed                *)
SeedCreated == CreateBookingOut("cust", ClientBody(Undefined)).doc

SeedConfirmed ==
    ChangeStatusOut(TRUE, SeedCreated, "vend", "confirmed", Undefined,
                    Undefined, "100000", 1).doc

SeedInProgress ==
    ChangeStatusOut(TRUE, SeedConfirmed, "vend", "in-progress", Undefined,
                    Undefined, "100000", 1).doc

SeedVerification ==
    ChangeStatusOut(TRUE, SeedInProgress, "vend", "verification-pending",
                    Undefined, Undefined, "100000", 1).doc

SeedCompleted ==
    ChangeStatusOut(TRUE, SeedVerification, "vend", "completed", Undefined,
                    "100000", "100000", 1).doc

SeedReported == RaiseDisputeOut(TRUE, SeedCompleted, "cust", "r1", "x1").doc

SeedResolved ==
    ResolveDisputeOut(TRUE, SeedReported, "admin", "res1", "cancelled", 1).doc

SeedResolvedCompleted ==
    ResolveDisputeOut(TRUE, SeedReported, "admin", "res1", "completed", 1).doc

Seeds ==
    {SeedCreated, SeedConfirmed, SeedInProgress, SeedVerification,
     SeedCompleted, SeedReported, SeedResolved, SeedResolvedCompleted}

Slots == {"r1", "r2"}

Idle ==
    [pc |-> "idle", actor |-> "", status |-> "", otp |-> Undefined,
     found |-> FALSE, doc |-> BlankBooking, code |-> 0, overwrote |-> FALSE]

\* an event on the channel: io.to(room).emit(name, payload); the payload
\* is the set of the values of its fields
Event(room, name, payload) == [room |-> room, name |-> name, payload |-> payload]

NoWire ==
    [events |-> {}, mail |-> Undefined, io |-> "up", smtp |-> "up",
     customerPhone |-> FALSE, vendorPhone |-> FALSE]

\* the sockets the clients opened, and the account that opened each; the
\* server registers no middleware on the channel (no io.use), so the
\* connection itself carries no identity
Connections == {"k1", "k2"}

Owner == [k \in Connections |-> IF k = "k1" THEN "cust" ELSE "vend2"]

NoRooms == [k \in Connections |-> {}]

Init ==
    /\ db \in {<< >>} \cup {("b1" :> s) : s \in Seeds}
    /\ now = 1
    /\ last = NoRequest
    /\ served = 0
    /\ inflight = << >>
    /\ active = Users
    /\ wire = NoWire
    /\ rooms = NoRooms

Next ==
    \E u \in Users, id \in BookingIds :
        \/ \E body \in Bodies : CreateBooking(u, id, body)
        \/ \E status \in StatusInputs, notes \in NotesInputs, otp \in OtpInputs,
              g \in OtpCodes :
                ChangeStatus(u, id, status, notes, otp, g)
        \/ \E status \in StatusInputs, notes \in NotesInputs :
                VendorStatus(u, id, status, notes)
        \/ \E g \in OtpCodes : FetchOtp(u, id, g)
        \/ \E d \in {Undefined, "d2"}, a \in {NoAddress, [street |-> "st2", city |-> Undefined]},
              notes \in NotesInputs :
                EditBooking(u, id, d, a, notes)
        \/ \E reason \in ReasonInputs, description \in DescriptionInputs :
                RaiseDispute(u, id, reason, description)
        \/ \E resolution \in ResolutionInputs, finalStatus \in FinalStatusInputs :
                ResolveDispute(u, id, resolution, finalStatus)
        \/ \E score \in ScoreInputs, review \in ReviewInputs :
                SubmitReview(u, id, score, review)

Spec == Init /\ [][Next]_vars

-----------------------------------------------------------------------------
(* Two status requests in flight.  A handler awaits twice, at findById and
   at save, so another request's steps may run between the two.            *)

\* booking.save() of a loaded document: Mongoose writes the paths the
\* handler modified ($set) and the entries it pushed ($push), and the
\* schema states no optimistic concurrency, so the write is unconditional.
SaveLoaded(stored, loaded, doc) ==
    [f \in DOMAIN doc |->
        IF f = "timeline"
        THEN stored.timeline \o
             SubSeq(doc.timeline, Len(loaded.timeline) + 1, Len(doc.timeline))
        ELSE IF f = "notes"
        THEN [k \in DOMAIN doc.notes |->
                IF doc.notes[k] # loaded.notes[k] THEN doc.notes[k]
                ELSE stored.notes[k]]
        ELSE IF doc[f] # loaded[f] THEN doc[f] ELSE stored[f]]

\* const booking = await Booking.findById(req.params.id)
LoadStatusRequest(r, u, id, status, otp) ==
    /\ inflight[r].pc = "idle"
    /\ inflight' = [inflight EXCEPT ![r] =
            [Idle EXCEPT !.pc = "loaded", !.actor = u, !.status = status,
                         !.otp = otp, !.found = Exists(id), !.doc = Loaded(id)]]
    /\ UNCHANGED <<db, now, last, served, active, wire, rooms>>

\* the rest of the handler, to await booking.save() and the response
FinishStatusRequest(r, id, generatedOtp) ==
    LET q == inflight[r]
        out == ChangeStatusOut(q.found, q.doc, q.actor, q.status, Undefined,
                               q.otp, generatedOtp, now)
    IN  /\ q.pc = "loaded"
        /\ db' = IF out.save
                 THEN (id :> SaveLoaded(db[id], q.doc, out.doc)) @@ db
                 ELSE db
        /\ inflight' = [inflight EXCEPT ![r] =
                [q EXCEPT !.pc = "done", !.code = out.code,
                          !.overwrote = out.save /\ db[id].status # q.doc.status]]
        /\ UNCHANGED <<now, last, served, active, wire, rooms>>

NextConc ==
    \E r \in Slots, id \in BookingIds :
        \/ \E u \in {"cust", "vend", "admin"}, status \in StatusInputs,
              otp \in {Undefined, "100000"} :
                LoadStatusRequest(r, u, id, status, otp)
        \/ \E g \in OtpCodes : FinishStatusRequest(r, id, g)

InitConc ==
    /\ db \in {("b1" :> s) : s \in {SeedCreated, SeedVerification}}
    /\ now = 1
    /\ last = NoRequest
    /\ served = 0
    /\ inflight = [r \in Slots |-> Idle]
    /\ active = Users
    /\ wire = NoWire
    /\ rooms = NoRooms

SpecConc == InitConc /\ [][NextConc]_vars

-----------------------------------------------------------------------------
(* The request from the bearer token to the response: authenticateToken,
   the handler, the events it publishes after booking.save() and the mail
   it sends, with the channel and the mailer up or down.                   *)

\* mutant: the code rides along in the status payload
statusUpdatePayloadWithOtp(id, doc, u, status) ==
    {id, status, Role(u), doc.completionOtp}

\* statusUpdatePayload: { bookingId, status, updatedBy }
statusUpdatePayload(id, doc, u, status) == {id, status, Role(u)}

\* the other party of the booking: the vendor for a customer's request,
\* the customer for everyone else's
targetUserId(doc, u) ==
    IF Role(u) = "customer" THEN doc.vendor ELSE doc.customer

CreateBookingEvents(id, doc) ==
    IF doc.vendor # Undefined
    THEN {Event(doc.vendor, "new-booking",
                {id, doc.customer, doc.service, doc.scheduledDate})}
    ELSE {}

ChangeStatusEvents(id, doc, u, status) ==
    IF targetUserId(doc, u) # Undefined
    THEN {Event(targetUserId(doc, u), "booking-status-update",
                statusUpdatePayload(id, doc, u, status))}
    ELSE {}

\* the backup mail with the generated code, to the fixed address
ChangeStatusMail(doc, u, status, generatedOtp) ==
    IF targetUserId(doc, u) # Undefined /\ status = "verification-pending"
    THEN generatedOtp ELSE Undefined

EditBookingEvents(id, doc, u) ==
    IF targetUserId(doc, u) # Undefined
    THEN {Event(targetUserId(doc, u), "booking-details-update", {id})}
    ELSE {}

\* mutant: the dispute is announced to one admin
RaiseDisputeEventsOneAdmin(id, doc, u) ==
    {Event("admin", "new-dispute", {id, doc.dispute.reason, u, Role(u)})}

\* adminIds.forEach(adminId => req.io.to(adminId).emit('new-dispute', ...))
RaiseDisputeEvents(id, doc, u) ==
    {Event(a, "new-dispute", {id, doc.dispute.reason, u, Role(u)}) : a \in Admins}

ResolveDisputeEvents(id, doc, resolution, finalStatus) ==
    {Event(doc.customer, "dispute-resolved", {id, finalStatus, resolution})}
    \cup (IF doc.vendor # Undefined
          THEN {Event(doc.vendor, "dispute-resolved", {id, finalStatus, resolution})}
          ELSE {})

\* the handlers that wrap their publish in a try of its own
PublishGuarded(cmd) == cmd = "RaiseDispute"

\* mutant: the account's isActive flag is not looked at
AuthenticateTokenNoActiveCheck(u) == [code |-> 0, error |-> ""]

\* authenticateToken: [code, error], code 0 when next() is called
AuthenticateToken(u) ==
    IF u \notin active
    THEN [code |-> 401, error |-> "This user account is inactive."]
    ELSE [code |-> 0, error |-> ""]

\* a request served end to end, with the channel and the mailer as they
\* are (wire.io, wire.smtp).  A throw of req.io...emit after the save
\* reaches the handler's outer catch unless the handler guards its publish;
\* sendEmail is always called inside a try of its own.
Http(cmd, u, id, out, events, mail, phones) ==
    LET auth == AuthenticateToken(u)
        io == wire.io
        smtp == wire.smtp
        thrown == out.save /\ events # {} /\ io = "down" /\ ~PublishGuarded(cmd)
    IN  /\ db' = IF auth.code # 0 THEN db ELSE Persist(id, out)
        /\ last' =
            IF auth.code # 0
            THEN [cmd |-> cmd, actor |-> u, code |-> auth.code,
                  error |-> auth.error, otp |-> Undefined]
            ELSE IF thrown
            THEN [cmd |-> cmd, actor |-> u, code |-> 500,
                  error |-> "publish failed", otp |-> Undefined]
            ELSE [cmd |-> cmd, actor |-> u, code |-> out.code,
                  error |-> out.error, otp |-> out.otp]
        /\ wire' =
            [events |-> IF auth.code = 0 /\ out.save /\ io = "up"
                        THEN events ELSE {},
             mail |-> IF auth.code = 0 /\ out.save /\ smtp = "up"
                      THEN mail ELSE Undefined,
             io |-> io, smtp |-> smtp,
             customerPhone |-> auth.code = 0 /\ ~thrown /\ phones.customer,
             vendorPhone |-> auth.code = 0 /\ ~thrown /\ phones.vendor]
        /\ served' = served + 1
        /\ UNCHANGED <<now, inflight, active, rooms>>

NoPhones == [customer |-> FALSE, vendor |-> FALSE]

canViewContactInfoStatuses == {"confirmed", "in-progress", "completed"}

\* a read answers with the document and touches nothing
ReadOut(code, error, b) ==
    [code |-> code, error |-> error, doc |-> b, save |-> FALSE,
     otp |-> IF code = 200 THEN b.completionOtp ELSE Undefined]

\* GET /api/bookings: the bookings of the customer, of the vendor, or all
ListBookingsListed(found, b, u) ==
    /\ found
    /\ \/ Role(u) = "customer" /\ b.customer = u
       \/ Role(u) = "vendor" /\ b.vendor = u
       \/ Role(u) = "admin"

\* res.json(results): the listed documents as stored, completionOtp included
ListBookingsOut(found, b, u) ==
    [ReadOut(200, "", b) EXCEPT
        !.otp = IF ListBookingsListed(found, b, u) THEN b.completionOtp
                ELSE Undefined]

ListBookingsPhones(found, b, u) ==
    LET canView == b.status \in canViewContactInfoStatuses
    IN  [customer |-> ListBookingsListed(found, b, u) /\ canView,
         vendor |-> ListBookingsListed(found, b, u) /\ canView]

\* GET /api/bookings/:id
GetBookingOut(found, b, u) ==
    IF ~found
    THEN ReadOut(404, "Booking not found.", b)
    ELSE IF ~IsCustomer(b, u) /\ ~IsVendor(b, u) /\ ~IsAdmin(u)
    THEN ReadOut(403, "Access denied. You are not part of this booking.", b)
    ELSE ReadOut(200, "", b)

GetBookingPhones(found, b, u) ==
    LET canViewContactInfo == b.status \in canViewContactInfoStatuses
        sent == GetBookingOut(found, b, u).code = 200
    IN  [customer |-> sent /\ ~(IsVendor(b, u) /\ ~canViewContactInfo),
         vendor |-> sent /\ ~(IsCustomer(b, u) /\ ~canViewContactInfo)]

\* GET /api/vendors/bookings: Booking.find({ vendor }).populate('customer',
\* 'name email phone'), sent as found
VendorBookingsOut(found, b, u) ==
    IF VendorGate(u).code # 0
    THEN ReadOut(VendorGate(u).code, VendorGate(u).error, b)
    ELSE [ReadOut(200, "", b) EXCEPT
            !.otp = IF found /\ b.vendor = u THEN b.completionOtp
                    ELSE Undefined]

VendorBookingsPhones(found, b, u) ==
    [customer |-> VendorGate(u).code = 0 /\ found /\ b.vendor = u,
     vendor |-> FALSE]

HttpCreateBooking(u, id, body) ==
    LET out == CreateBookingOut(u, body)
    IN  /\ Room(id)
        /\ ~Exists(id)
        /\ Http("CreateBooking", u, id, out, CreateBookingEvents(id, out.doc),
                Undefined, NoPhones)

HttpChangeStatus(u, id, status, notes, otp, generatedOtp) ==
    LET out == ChangeStatusOut(Exists(id), Loaded(id), u, status, notes, otp,
                               generatedOtp, now)
    IN  /\ Room(id)
        /\ Http("ChangeStatus", u, id, out,
                ChangeStatusEvents(id, out.doc, u, status),
                ChangeStatusMail(out.doc, u, status, generatedOtp),
                NoPhones)

HttpVendorStatus(u, id, status, vendorNotes) ==
    /\ Room(id)
    /\ Http("VendorStatus", u, id,
            VendorStatusOut(Exists(id), Loaded(id), u, status, vendorNotes),
            {}, Undefined, NoPhones)

HttpFetchOtp(u, id, generatedOtp) ==
    /\ Room(id)
    /\ Http("FetchOtp", u, id,
            FetchOtpOut(Exists(id), Loaded(id), u, generatedOtp, now),
            {}, Undefined, NoPhones)

HttpEditBooking(u, id, scheduledDate, address, notes) ==
    LET out == EditBookingOut(Exists(id), Loaded(id), u, scheduledDate, address, notes)
    IN  /\ Room(id)
        /\ Http("EditBooking", u, id, out, EditBookingEvents(id, out.doc, u),
                Undefined, NoPhones)

HttpRaiseDispute(u, id, reason, description) ==
    LET out == RaiseDisputeOut(Exists(id), Loaded(id), u, reason, description)
    IN  /\ Room(id)
        /\ Http("RaiseDispute", u, id, out, RaiseDisputeEvents(id, out.doc, u),
                Undefined, NoPhones)

HttpResolveDispute(u, id, resolution, finalStatus) ==
    LET out == ResolveDisputeOut(Exists(id), Loaded(id), u, resolution,
                                 finalStatus, now)
    IN  /\ Room(id)
        /\ Http("ResolveDispute", u, id, out,
                ResolveDisputeEvents(id, out.doc, resolution, finalStatus),
                Undefined, NoPhones)

HttpSubmitReview(u, id, score, review) ==
    /\ Room(id)
    /\ Http("SubmitReview", u, id,
            SubmitReviewOut(Exists(id), Loaded(id), u, score, review),
            {}, Undefined, NoPhones)

HttpListBookings(u, id) ==
    /\ Room(id)
    /\ Http("ListBookings", u, id,
            ListBookingsOut(Exists(id), Loaded(id), u), {}, Undefined,
            ListBookingsPhones(Exists(id), Loaded(id), u))

HttpGetBooking(u, id) ==
    /\ Room(id)
    /\ Http("GetBooking", u, id, GetBookingOut(Exists(id), Loaded(id), u),
            {}, Undefined,
            GetBookingPhones(Exists(id), Loaded(id), u))

HttpVendorBookings(u, id) ==
    /\ Room(id)
    /\ Http("VendorBookings", u, id, VendorBookingsOut(Exists(id), Loaded(id), u),
            {}, Undefined,
            VendorBookingsPhones(Exists(id), Loaded(id), u))

\* a time after the window of a code generated at the start
AfterWindow == 1 + OtpWindow + 1

\* the vendor route into verification-pending: no code is stored
SeedVerificationNoCode ==
    VendorStatusOut(TRUE, SeedInProgress, "vend", "verification-pending",
                    Undefined).doc

\* the conditions a request is served under: the channel, the mailer, the
\* accounts that are active, the clock
Calm == [io |-> "up", smtp |-> "up", active |-> Users, now |-> 1]

Conditions ==
    {Calm, [Calm EXCEPT !.io = "down"], [Calm EXCEPT !.smtp = "down"],
     [Calm EXCEPT !.now = AfterWindow]}
    \cup {[Calm EXCEPT !.active = Users \ {u}] : u \in {"cust", "vend", "admin"}}

InitHttp ==
    /\ db \in {<< >>} \cup {("b1" :> s) : s \in Seeds \cup {SeedVerificationNoCode}}
    /\ last = NoRequest
    /\ served = 0
    /\ inflight = << >>
    /\ \E c \in Conditions :
        /\ now = c.now
        /\ active = c.active
        /\ wire = [NoWire EXCEPT !.io = c.io, !.smtp = c.smtp]
        /\ rooms = NoRooms

\* the requests of this specification: one actor of each kind and a vendor
\* of another booking; the targets and codes the claims about the channel,
\* the reads and the accounts turn on
HttpActors == {"cust", "vend", "vend2", "admin"}
HttpStatusInputs ==
    {"confirmed", "verification-pending", "completed", "cancelled", "reported"}
HttpOtpInputs == {Undefined, "100000"}

NextHttp ==
    \E u \in HttpActors, id \in BookingIds :
        \/ \E body \in Bodies : HttpCreateBooking(u, id, body)
        \/ \E status \in HttpStatusInputs, otp \in HttpOtpInputs, g \in OtpCodes :
                HttpChangeStatus(u, id, status, Undefined, otp, g)
        \/ \E status \in HttpStatusInputs : HttpVendorStatus(u, id, status, Undefined)
        \/ \E g \in OtpCodes : HttpFetchOtp(u, id, g)
        \/ \E d \in {Undefined, "d2"}, notes \in NotesInputs :
                HttpEditBooking(u, id, d, NoAddress, notes)
        \/ \E reason \in ReasonInputs, description \in DescriptionInputs :
                HttpRaiseDispute(u, id, reason, description)
        \/ \E resolution \in ResolutionInputs, finalStatus \in FinalStatusInputs :
                HttpResolveDispute(u, id, resolution, finalStatus)
        \/ \E score \in {5}, review \in ReviewInputs :
                HttpSubmitReview(u, id, score, review)
        \/ HttpListBookings(u, id)
        \/ HttpGetBooking(u, id)
        \/ HttpVendorBookings(u, id)

SpecHttp == InitHttp /\ [][NextHttp]_vars

-----------------------------------------------------------------------------
(* The first end-to-end run, request by request, from an empty store: the
   customer books, the vendor confirms, starts and asks for completion, the
   customer fetches the code, the vendor completes with the fetched code.
   The clock may move between the requests.                                *)

MaxNow == 5

ScenarioCreate ==
    /\ served = 0
    /\ \E n \in NotesInputs :
        Serve("CreateBooking", "cust", "b1",
              CreateBookingOut("cust", [ClientBody(Undefined) EXCEPT !.notes = n]))

ScenarioConfirm ==
    /\ served = 1
    /\ \E notes \in NotesInputs, g \in OtpCodes :
        Serve("ChangeStatus", "vend", "b1",
              ChangeStatusOut(Exists("b1"), Loaded("b1"), "vend", "confirmed",
                              notes, Undefined, g, now))

ScenarioStart ==
    /\ served = 2
    /\ \E notes \in NotesInputs, g \in OtpCodes :
        Serve("ChangeStatus", "vend", "b1",
              ChangeStatusOut(Exists("b1"), Loaded("b1"), "vend", "in-progress",
                              notes, Undefined, g, now))

ScenarioRequestCompletion ==
    /\ served = 3
    /\ \E notes \in NotesInputs, g \in OtpCodes :
        Serve("ChangeStatus", "vend", "b1",
              ChangeStatusOut(Exists("b1"), Loaded("b1"), "vend",
                              "verification-pending", notes, Undefined, g, now))

ScenarioFetchOtp ==
    /\ served = 4
    /\ \E g \in OtpCodes :
        Serve("FetchOtp", "cust", "b1",
              FetchOtpOut(Exists("b1"), Loaded("b1"), "cust", g, now))

\* the vendor sends the code the customer was given
ScenarioComplete ==
    /\ served = 5
    /\ \E notes \in NotesInputs, g \in OtpCodes :
        Serve("ChangeStatus", "vend", "b1",
              ChangeStatusOut(Exists("b1"), Loaded("b1"), "vend", "completed",
                              notes, last.otp, g, now))

Tick ==
    /\ served < 6
    /\ now < MaxNow
    /\ now' = now + 1
    /\ UNCHANGED <<db, last, served, inflight, active, wire, rooms>>

InitScenario ==
    /\ db = << >>
    /\ now = 1
    /\ last = NoRequest
    /\ served = 0
    /\ inflight = << >>
    /\ active = Users
    /\ wire = NoWire
    /\ rooms = NoRooms

NextScenario ==
    \/ ScenarioCreate
    \/ ScenarioConfirm
    \/ ScenarioStart
    \/ ScenarioRequestCompletion
    \/ ScenarioFetchOtp
    \/ ScenarioComplete
    \/ Tick

SpecScenario == InitScenario /\ [][NextScenario]_vars

-----------------------------------------------------------------------------
(* The real-time channel (server.js, io.on('connection')).  A connection
   sends 'join-room' with any string and the server joins it to that room;
   a connection sends 'booking-update' with any data and the server
   republishes it into the rooms the data names.                           *)

RoomInputs == {"cust", "vend", "admin"}

BookingUpdateData ==
    [vendorId : {"cust", "vend"}, customerId : {"cust", "vend"}]

\* socket.on('join-room', (userId) => { socket.join(userId); })
JoinRoom(k, userId) ==
    /\ rooms' = [rooms EXCEPT ![k] = @ \cup {userId}]
    /\ UNCHANGED <<db, now, last, served, inflight, active, wire>>

\* socket.on('booking-update', (data) => { io.to(data.vendorId).emit(
\* 'new-booking', data); io.to(data.customerId).emit('booking-status', data) })
BookingUpdate(k, data) ==
    /\ wire' = [wire EXCEPT !.events =
            {Event(data.vendorId, "new-booking", {data.vendorId, data.customerId}),
             Event(data.customerId, "booking-status",
                   {data.vendorId, data.customerId})}]
    /\ UNCHANGED <<db, now, last, served, inflight, active, rooms>>

\* socket.on('disconnect'): the socket leaves its rooms
Disconnect(k) ==
    /\ rooms[k] # {}
    /\ rooms' = [rooms EXCEPT ![k] = {}]
    /\ UNCHANGED <<db, now, last, served, inflight, active, wire>>

\* the engine's own publish: the vendor confirms the booking over HTTP
EnginePublish ==
    \E g \in OtpCodes :
        HttpChangeStatus("vend", "b1", "confirmed", Undefined, Undefined, g)

InitChannel ==
    /\ db = ("b1" :> SeedCreated)
    /\ now = 1
    /\ last = NoRequest
    /\ served = 0
    /\ inflight = << >>
    /\ active = Users
    /\ wire = NoWire
    /\ rooms = NoRooms

NextChannel ==
    \/ \E k \in Connections, userId \in RoomInputs : JoinRoom(k, userId)
    \/ \E k \in Connections, data \in BookingUpdateData : BookingUpdate(k, data)
    \/ \E k \in Connections : Disconnect(k)
    \/ EnginePublish

SpecChannel == InitChannel /\ [][NextChannel]_vars

-----------------------------------------------------------------------------
(* Two requests of any of the writing handlers in flight.  Each handler
   awaits at findById and at booking.save(); what it decides, it decides on
   the document it loaded.                                                 *)

\* the requests that may overlap: the vendor starts the job, the admin
\* forces completion, the customer cancels, edits or asks for the code, the
\* customer and the vendor each report an issue
RaceRequests ==
    {[cmd |-> "ChangeStatus", actor |-> "vend", status |-> "in-progress"],
     [cmd |-> "ChangeStatus", actor |-> "admin", status |-> "completed"],
     [cmd |-> "ChangeStatus", actor |-> "cust", status |-> "cancelled"],
     [cmd |-> "EditBooking", actor |-> "cust", status |-> Undefined],
     [cmd |-> "RaiseDispute", actor |-> "cust", status |-> Undefined],
     [cmd |-> "RaiseDispute", actor |-> "vend", status |-> Undefined],
     [cmd |-> "FetchOtp", actor |-> "cust", status |-> Undefined]}

NoRaceRequest == [cmd |-> "", actor |-> "", status |-> Undefined]

IdleRace ==
    [pc |-> "idle", req |-> NoRaceRequest, found |-> FALSE,
     doc |-> BlankBooking, code |-> 0]

\* the handler of the request, run on the document it loaded
RaceOut(q, generatedOtp, t) ==
    IF q.req.cmd = "ChangeStatus"
    THEN ChangeStatusOut(q.found, q.doc, q.req.actor, q.req.status, Undefined,
                         Undefined, generatedOtp, t)
    ELSE IF q.req.cmd = "EditBooking"
    THEN EditBookingOut(q.found, q.doc, q.req.actor, "d2", NoAddress, Undefined)
    ELSE IF q.req.cmd = "RaiseDispute"
    THEN RaiseDisputeOut(q.found, q.doc, q.req.actor, "r1", "x1")
    ELSE FetchOtpOut(q.found, q.doc, q.req.actor, generatedOtp, t)

\* const booking = await Booking.findById(req.params.id)
LoadRequest(r, id, req) ==
    /\ inflight[r].pc = "idle"
    /\ inflight' = [inflight EXCEPT ![r] =
            [IdleRace EXCEPT !.pc = "loaded", !.req = req,
                             !.found = Exists(id), !.doc = Loaded(id)]]
    /\ UNCHANGED <<db, now, last, served, active, wire, rooms>>

\* the rest of the handler, to await booking.save() and the response
FinishRequest(r, id, generatedOtp) ==
    LET q == inflight[r]
        out == RaceOut(q, generatedOtp, now)
    IN  /\ q.pc = "loaded"
        /\ db' = IF out.save
                 THEN (id :> SaveLoaded(db[id], q.doc, out.doc)) @@ db
                 ELSE db
        /\ inflight' = [inflight EXCEPT ![r] =
                [q EXCEPT !.pc = "done", !.code = out.code]]
        /\ UNCHANGED <<now, last, served, active, wire, rooms>>

NextRace ==
    \E r \in Slots, id \in BookingIds :
        \/ \E req \in RaceRequests : LoadRequest(r, id, req)
        \/ \E g \in OtpCodes : FinishRequest(r, id, g)

InitRace ==
    /\ db \in {("b1" :> s) :
                s \in {SeedConfirmed, SeedVerificationNoCode, SeedCompleted}}
    /\ now = 1
    /\ last = NoRequest
    /\ served = 0
    /\ inflight = [r \in Slots |-> IdleRace]
    /\ active = Users
    /\ wire = NoWire
    /\ rooms = NoRooms

SpecRace == InitRace /\ [][NextRace]_vars

-----------------------------------------------------------------------------
(* Properties.  The model holds one booking, "b1".                         *)

Bk == db["b1"]
Held == Exists("b1")
HeldBoth == "b1" \in DOMAIN db /\ "b1" \in DOMAIN db'

StatusCommands == {"ChangeStatus", "VendorStatus", "RaiseDispute", "ResolveDispute"}

\* the edges of the lifecycle: the main path, the side branches, the
\* dispute and its resolution
MainPath ==
    {<<"pending", "confirmed">>, <<"confirmed", "in-progress">>,
     <<"in-progress", "verification-pending">>,
     <<"verification-pending", "completed">>}

StatusEdges ==
    MainPath
    \cup ({"pending", "confirmed", "in-progress", "verification-pending"}
          \X {"cancelled", "rejected"})
    \cup ({"in-progress", "verification-pending", "completed"} \X {"reported"})
    \cup ({"reported"} \X {"completed", "cancelled"})

(* C1: every successful status-changing command (a status change on either
   status route, a dispute, a resolution) moves the status along an edge of
   the lifecycle; none moves a booking out of cancelled or rejected or
   backwards along the main path.                                           *)
C1_StatusMovesAlongEdges ==
    [][(/\ HeldBoth
        /\ served' # served
        /\ last'.cmd \in StatusCommands
        /\ db'["b1"].status # db["b1"].status)
       => <<db["b1"].status, db'["b1"].status>> \in StatusEdges]_vars

(* C2: a command that answers with an error leaves the stored record as it
   was: status, payment, completionOtp, dispute, rating, timeline, notes.   *)
C2_ErrorLeavesRecord ==
    [][(/\ served' # served
        /\ last'.cmd \in StatusCommands
                         \cup {"EditBooking", "SubmitReview", "FetchOtp"}
        /\ last'.code # 200)
       => db' = db]_vars

C2_Witness ==
    /\ Held
    /\ last.cmd \in StatusCommands \cup {"EditBooking", "SubmitReview", "FetchOtp"}
    /\ last.code \in {400, 403}

(* C3: a vendor's status change to completed succeeds only from
   verification-pending, only for the booking's vendor and only with an otp
   equal to the stored completionOtp; the vendor route never sets completed. *)
C3_VendorCompletesOnlyWithCode ==
    \A u \in Users, otp \in OtpInputs, notes \in NotesInputs, g \in OtpCodes :
        Role(u) = "vendor" =>
            /\ ChangeStatusOut(Held, Loaded("b1"), u, "completed", notes, otp, g, now).save
               => /\ Held
                  /\ IsVendor(Bk, u)
                  /\ Bk.status = "verification-pending"
                  /\ otp # Undefined
                  /\ otp = Bk.completionOtp
            /\ ~VendorStatusOut(Held, Loaded("b1"), u, "completed", notes).save

C3_Witness ==
    /\ Held
    /\ last.cmd = "ChangeStatus" /\ last.actor = Bk.vendor /\ last.code = 200
    /\ Bk.status = "completed"

(* C4: the stored completionOtp is set exactly when the status is
   verification-pending.                                                    *)
C4_OtpIffVerificationPending ==
    Held => ((Bk.completionOtp # Undefined) <=> (Bk.status = "verification-pending"))

(* C5: on a verification-pending booking the vendor's completion without an
   otp is answered 400 "OTP is required", and with an otp other than the
   stored code 400 "Invalid OTP"; neither changes the stored record.        *)
C5_WrongOrMissingCodeRejected ==
    (Held /\ Bk.status = "verification-pending") =>
        \A otp \in OtpInputs, notes \in NotesInputs, g \in OtpCodes :
            LET out == ChangeStatusOut(TRUE, Bk, Bk.vendor, "completed", notes,
                                       otp, g, now)
            IN  /\ otp = Undefined =>
                    /\ out.code = 400
                    /\ out.error = "OTP is required to complete the booking."
                    /\ Persist("b1", out) = db
                /\ (otp # Undefined /\ otp # Bk.completionOtp) =>
                    /\ out.code = 400
                    /\ out.error = "Invalid OTP provided."
                    /\ Persist("b1", out) = db

C5_Witness ==
    /\ Held
    /\ Bk.status = "verification-pending" /\ Bk.completionOtp \in OtpCodes
    /\ last.cmd = "ChangeStatus" /\ last.actor = Bk.vendor
    /\ last.error = "Invalid OTP provided."

\* the vendor's completion with the code: the step from verification-pending
\* to completed by a status change of the booking's vendor
VendorCompletionStep ==
    /\ HeldBoth
    /\ served' # served
    /\ last'.cmd = "ChangeStatus" /\ last'.code = 200
    /\ last'.actor = db["b1"].vendor
    /\ db["b1"].status = "verification-pending"
    /\ db'["b1"].status = "completed"

(* C6: the vendor's completion with the code clears completionOtp and
   completionOtpExpires, sets the payment to payout_pending and appends
   exactly one timeline entry.                                              *)
C6_CompletionClearsBothCodeFields ==
    [][VendorCompletionStep =>
        /\ db'["b1"].completionOtp = Undefined
        /\ db'["b1"].completionOtpExpires = NoDate
        /\ db'["b1"].payment.status = "payout_pending"
        /\ Len(db'["b1"].timeline) = Len(db["b1"].timeline) + 1]_vars

(* C7: every successful step into completed sets the payment to
   payout_pending, and a resolution as cancelled sets refund_pending.       *)
C7_CompletedMeansPayoutPending ==
    [][(/\ HeldBoth
        /\ served' # served
        /\ last'.code = 200
        /\ last'.cmd \in StatusCommands)
       => /\ (db["b1"].status # "completed" /\ db'["b1"].status = "completed")
             => db'["b1"].payment.status = "payout_pending"
          /\ (last'.cmd = "ResolveDispute" /\ db'["b1"].status = "cancelled")
             => db'["b1"].payment.status = "refund_pending"]_vars

\* the steps of the payment status that go forward: along
\* pending -> paid_to_platform -> payout_pending -> paid_to_vendor, and from
\* paid_to_platform or payout_pending along refund_pending -> refunded
PaymentForward ==
    {<<"pending", "paid_to_platform">>, <<"pending", "payout_pending">>,
     <<"pending", "paid_to_vendor">>, <<"pending", "refund_pending">>,
     <<"pending", "refunded">>,
     <<"paid_to_platform", "payout_pending">>, <<"paid_to_platform", "paid_to_vendor">>,
     <<"paid_to_platform", "refund_pending">>, <<"paid_to_platform", "refunded">>,
     <<"payout_pending", "paid_to_vendor">>,
     <<"payout_pending", "refund_pending">>, <<"payout_pending", "refunded">>,
     <<"refund_pending", "refunded">>}

(* C8: the payment status never regresses: every change of it is a step
   forward.                                                                 *)
C8_PaymentNeverRegresses ==
    [][(HeldBoth /\ db'["b1"].payment.status # db["b1"].payment.status)
       => <<db["b1"].payment.status, db'["b1"].payment.status>> \in PaymentForward]_vars

(* C9: of two status changes in flight on the same booking, one is persisted
   only if the stored status at its save is the status it read.             *)
C9_NoStaleWrite ==
    \A r \in Slots : ~inflight[r].overwrote

FinishedStatuses == {"completed", "cancelled", "rejected"}

(* C10 as stated: the customer's status change succeeds only to cancelled
   and only from an unfinished booking; every other target is answered 403
   and a cancel of a finished booking 400.                                  *)
C10_CustomerOnlyCancels ==
    Held =>
        \A status \in StatusInputs, otp \in OtpInputs, notes \in NotesInputs,
           g \in OtpCodes :
            LET out == ChangeStatusOut(TRUE, Bk, Bk.customer, status, notes, otp, g, now)
            IN  /\ out.save => (status = "cancelled" /\ Bk.status \notin FinishedStatuses)
                /\ status # "cancelled" => out.code = 403
                /\ (status = "cancelled" /\ Bk.status \in FinishedStatuses)
                   => out.code = 400

(* C10 as amended: the same, but a target outside the route's valid
   statuses (reported) is answered 400, before the role is looked at.       *)
C10_CustomerOnlyCancelsValidTargets ==
    Held =>
        \A status \in StatusInputs, otp \in OtpInputs, notes \in NotesInputs,
           g \in OtpCodes :
            LET out == ChangeStatusOut(TRUE, Bk, Bk.customer, status, notes, otp, g, now)
            IN  /\ out.save => (status = "cancelled" /\ Bk.status \notin FinishedStatuses)
                /\ (status # "cancelled" /\ status \in validStatuses) => out.code = 403
                /\ status \notin validStatuses => out.code = 400
                /\ (status = "cancelled" /\ Bk.status \in FinishedStatuses)
                   => out.code = 400

C10_Witness ==
    /\ Held
    /\ last.cmd = "ChangeStatus" /\ last.actor = Bk.customer
    /\ last.code = 200 /\ Bk.status = "cancelled"

\* the 400 answers of the dispute route that are about the booking's state
DisputeStateErrors ==
    {"Cannot report an issue for a booking with this status.",
     "An issue has already been reported for this booking and is currently open."}

(* C11: RaiseDispute succeeds exactly when the actor is the booking's
   customer or vendor, reason and description are given, the status is
   in-progress, verification-pending or completed and no dispute is open;
   on success the dispute is open, the status reported and the timeline one
   entry longer; over an open dispute it is answered 400 as an invalid state
   and nothing is written.                                                  *)
C11_RaiseDisputeExactly ==
    Held =>
        \A u \in Users, reason \in ReasonInputs, description \in DescriptionInputs :
            LET out == RaiseDisputeOut(TRUE, Bk, u, reason, description)
                participant == IsCustomer(Bk, u) \/ IsVendor(Bk, u)
                given == reason # Undefined /\ description # Undefined
            IN  /\ out.save <=> /\ participant
                                /\ given
                                /\ Bk.status \in reportableStatuses
                                /\ Bk.dispute.status # "open"
                /\ out.save =>
                    /\ out.code = 200
                    /\ out.doc.dispute.status = "open"
                    /\ out.doc.dispute.raisedBy = u
                    /\ out.doc.status = "reported"
                    /\ Len(out.doc.timeline) = Len(Bk.timeline) + 1
                    /\ SubSeq(out.doc.timeline, 1, Len(Bk.timeline)) = Bk.timeline
                /\ (participant /\ given /\ Bk.dispute.status = "open") =>
                    /\ out.code = 400
                    /\ out.error \in DisputeStateErrors
                    /\ Persist("b1", out) = db

C11_Witness ==
    /\ Held
    /\ last.cmd = "RaiseDispute" /\ last.code = 200
    /\ last.actor \in {Bk.customer, Bk.vendor}
    /\ Bk.status = "reported" /\ Bk.dispute.status = "open"

(* C12: a resolution of a booking whose dispute is not open (resolved
   already, or never raised) is answered 400 or 404 and leaves the stored
   record as it was.                                                        *)
C12_ResolveOnlyOpenDispute ==
    [][(/\ HeldBoth
        /\ served' # served
        /\ last'.cmd = "ResolveDispute"
        /\ IsAdmin(last'.actor)
        /\ db["b1"].dispute.status # "open")
       => (last'.code \in {400, 404} /\ db' = db)]_vars

(* C13: a resolution is saved only for an admin with a resolution text and
   a final status of completed or cancelled; the saved document has the
   dispute resolved by that admin, the final status as status, and the
   payment payout_pending for completed, refund_pending for cancelled, all
   in the one save.                                                         *)
C13_ResolveByAdminSetsAll ==
    Held =>
        \A u \in Users, resolution \in ResolutionInputs,
           finalStatus \in FinalStatusInputs :
            LET out == ResolveDisputeOut(TRUE, Bk, u, resolution, finalStatus, now)
                stored == Persist("b1", out)["b1"]
            IN  out.save =>
                    /\ IsAdmin(u)
                    /\ resolution # Undefined
                    /\ finalStatus \in {"completed", "cancelled"}
                    /\ stored.dispute.status = "resolved"
                    /\ stored.dispute.resolvedBy = u
                    /\ stored.dispute.resolution = resolution
                    /\ stored.status = finalStatus
                    /\ finalStatus = "completed"
                       => stored.payment.status = "payout_pending"
                    /\ finalStatus = "cancelled"
                       => stored.payment.status = "refund_pending"

\* the customer's dispute on a completed booking, resolved as cancelled
C13_Witness ==
    /\ Held
    /\ last.cmd = "ResolveDispute" /\ last.code = 200 /\ IsAdmin(last.actor)
    /\ Bk.dispute.raisedBy = Bk.customer
    /\ Bk.dispute.status = "resolved"
    /\ Bk.status = "cancelled"
    /\ Bk.payment.status = "refund_pending"

(* C14: a booking whose dispute is resolved has status completed or
   cancelled, whatever command comes after the resolution.                  *)
C14_ResolvedIsTerminal ==
    (Held /\ Bk.dispute.status = "resolved")
        => Bk.status \in {"completed", "cancelled"}

\* the timeline holds an entry of status reported
EverReported(b) ==
    \E i \in 1..Len(b.timeline) : b.timeline[i].status = "reported"

(* C15: a booking carries a dispute exactly when its status has been
   reported at some point.                                                  *)
C15_DisputeIffEverReported ==
    Held => ((Bk.dispute # NoDispute) <=> EverReported(Bk))

(* C16: a request of an actor who is not the booking's customer, not its
   vendor and not an admin never changes the stored booking, on any route. *)
C16_StrangerNeverWrites ==
    [][(/\ HeldBoth
        /\ served' # served
        /\ ~IsAdmin(last'.actor)
        /\ ~IsCustomer(db["b1"], last'.actor)
        /\ ~IsVendor(db["b1"], last'.actor))
       => db' = db]_vars

\* the accounts that are no participant of the booking
NonParticipants ==
    {u \in Users : /\ ~IsAdmin(u)
                   /\ Held => (~IsCustomer(Bk, u) /\ ~IsVendor(Bk, u))}

Response(out) == [code |-> out.code, error |-> out.error]

\* the runs compared: the booking as stored, and the same request with no
\* such booking
Existence == IF Held THEN {TRUE, FALSE} ELSE {FALSE}

ChangeStatusResponses(u) ==
    {Response(ChangeStatusOut(f, IF f THEN Bk ELSE BlankBooking, u, status,
                              notes, otp, g, now)) :
        f \in Existence, status \in StatusInputs, notes \in NotesInputs,
        otp \in OtpInputs, g \in OtpCodes}

RaiseDisputeResponses(u) ==
    {Response(RaiseDisputeOut(f, IF f THEN Bk ELSE BlankBooking, u, reason,
                              description)) :
        f \in Existence, reason \in ReasonInputs, description \in DescriptionInputs}

FetchOtpResponses(u) ==
    {Response(FetchOtpOut(f, IF f THEN Bk ELSE BlankBooking, u, g, now)) :
        f \in Existence, g \in OtpCodes}

(* C17: to an actor who is no participant, a status change, a dispute and
   a code fetch each answer with one and the same 403, whether the booking
   exists or not, whatever its status and whatever the request carries.     *)
C17_UniformAccessDenied ==
    \A u \in NonParticipants :
        \A rs \in {ChangeStatusResponses(u), RaiseDisputeResponses(u),
                   FetchOtpResponses(u)} :
            /\ Cardinality(rs) = 1
            /\ \A r \in rs : r.code = 403

(* C18: a review is saved only for the booking's customer on a completed
   booking that carries no rating; on a booking that carries a rating it is
   answered 400 and the rating stays as it is.                              *)
C18_RatingSetOnce ==
    Held =>
        \A u \in Users, score \in ScoreInputs, review \in ReviewInputs :
            LET out == SubmitReviewOut(TRUE, Bk, u, score, review)
            IN  /\ out.save => /\ IsCustomer(Bk, u)
                               /\ Bk.status = "completed"
                               /\ Bk.rating = NoRating
                /\ (IsCustomer(Bk, u) /\ Bk.rating # NoRating) =>
                    /\ out.code = 400
                    /\ Persist("b1", out)["b1"].rating = Bk.rating

(* C19: the timeline is append-only, and a command adds exactly one entry
   when it succeeds and changes the status (creation included) and none
   when it fails or leaves the status as it was.                            *)
C19_TimelineOneEntryPerStatusChange ==
    [][(served' # served /\ "b1" \in DOMAIN db')
       => IF "b1" \in DOMAIN db
          THEN LET old == db["b1"]
                   new == db'["b1"]
               IN  /\ Len(new.timeline) >= Len(old.timeline)
                   /\ SubSeq(new.timeline, 1, Len(old.timeline)) = old.timeline
                   /\ Len(new.timeline) =
                        Len(old.timeline) +
                        (IF last'.code = 200 /\ new.status # old.status
                         THEN 1 ELSE 0)
          ELSE Len(db'["b1"].timeline) = 1]_vars

\* the note the audit trail is to carry for a forced completion
BypassedVerificationNote == "bypassed verification"

(* C20: an admin's successful completion of a verification-pending booking
   appends a timeline entry whose note says the verification was bypassed,
   whatever notes the request carries.                                      *)
C20_ForcedCompletionIsLogged ==
    [][(/\ HeldBoth
        /\ served' # served
        /\ last'.cmd = "ChangeStatus" /\ last'.code = 200
        /\ IsAdmin(last'.actor)
        /\ db["b1"].status = "verification-pending"
        /\ db'["b1"].status = "completed")
       => LET tl == db'["b1"].timeline
          IN  BypassedVerificationNote \in
                {tl[Len(tl)].note.text, tl[Len(tl)].note.arg, tl[Len(tl)].note.by}]_vars

(* C21: no event published on the channel carries a completion code, and
   a successful status change into verification-pending publishes to the
   customer's room the status change and nothing else.                      *)
C21_NoCodeOnChannel ==
    /\ \A e \in wire.events :
        /\ e.payload \cap OtpCodes = {}
        /\ Held => Bk.completionOtp \notin (e.payload \ {Undefined})
    /\ (/\ Held
        /\ last.cmd = "ChangeStatus" /\ last.code = 200
        /\ Bk.status = "verification-pending"
        /\ wire.io = "up")
       => wire.events =
            {Event(Bk.customer, "booking-status-update",
                   {"b1", "verification-pending", Role(last.actor)})}

C21_Witness ==
    /\ Held
    /\ last.cmd = "ChangeStatus" /\ last.code = 200
    /\ Bk.status = "verification-pending" /\ Bk.completionOtp \in OtpCodes
    /\ wire.events # {} /\ wire.mail = Bk.completionOtp

(* C22: a code fetch succeeds only for the booking's customer on a
   verification-pending booking; with a stored, unexpired code it returns
   that code and writes nothing, so that the next call returns it again;
   with no code or an expired one it stores a fresh code with a window of
   ten minutes from now and returns the fresh code.                         *)
C22_FetchOtpReturnsOrRegenerates ==
    Held =>
        \A u \in Users, g \in OtpCodes :
            LET out == FetchOtpOut(TRUE, Bk, u, g, now)
                stored == Persist("b1", out)["b1"]
                fresh == Bk.completionOtp # Undefined
                         /\ Bk.completionOtpExpires # NoDate
                         /\ Bk.completionOtpExpires >= now
                mine == IsCustomer(Bk, u) /\ Bk.status = "verification-pending"
            IN  /\ out.code = 200 => mine
                /\ (mine /\ fresh) =>
                    /\ out.code = 200
                    /\ out.otp = Bk.completionOtp
                    /\ stored = Bk
                    /\ \A g2 \in OtpCodes :
                        FetchOtpOut(TRUE, stored, u, g2, now).otp = out.otp
                /\ (mine /\ ~fresh) =>
                    /\ out.code = 200
                    /\ out.otp = g
                    /\ stored.completionOtp = g
                    /\ stored.completionOtpExpires = now + OtpWindow

\* an expired code was replaced
C22_Witness ==
    /\ Held
    /\ now = AfterWindow
    /\ last.cmd = "FetchOtp" /\ last.code = 200 /\ last.actor = Bk.customer
    /\ last.otp = Bk.completionOtp
    /\ Bk.completionOtpExpires = now + OtpWindow

(* C23: a command whose change of the record was persisted answers with
   success, whether the channel and the mailer are up or down.              *)
C23_PersistedMeansSuccess ==
    [][(served' # served /\ db' # db) => last'.code \in {200, 201}]_vars

ReadCommands == {"ListBookings", "GetBooking", "VendorBookings"}

(* C24: a read answered to a vendor carries the customer's phone, and a
   read answered to a customer the vendor's phone, only when the booking is
   confirmed, in-progress or completed.                                     *)
C24_PhoneOnlyWhenEngaged ==
    (Held /\ last.cmd \in ReadCommands) =>
        /\ (Role(last.actor) = "vendor" /\ wire.customerPhone)
           => Bk.status \in {"confirmed", "in-progress", "completed"}
        /\ (Role(last.actor) = "customer" /\ wire.vendorPhone)
           => Bk.status \in {"confirmed", "in-progress", "completed"}

(* C25: a booking is created only for a customer, or for an admin who names
   a customer; the created booking is pending, paid_to_platform, without a
   code, a rating or a dispute and with a timeline of one entry, whatever
   the request body holds.                                                  *)
C25_CreatedBookingIsFresh ==
    [][(/\ served' # served
        /\ last'.cmd = "CreateBooking"
        /\ "b1" \notin DOMAIN db /\ "b1" \in DOMAIN db')
       => /\ Role(last'.actor) \in {"customer", "admin"}
          /\ Role(last'.actor) = "admin" => db'["b1"].customer # Undefined
          /\ db'["b1"].status = "pending"
          /\ db'["b1"].payment.status = "paid_to_platform"
          /\ db'["b1"].completionOtp = Undefined
          /\ db'["b1"].rating = NoRating
          /\ db'["b1"].dispute = NoDispute
          /\ Len(db'["b1"].timeline) = 1]_vars

(* C26: an edit succeeds only for the booking's customer or an admin and
   only on a pending or confirmed booking; it changes nothing but
   scheduledDate, address, the customer notes and the timeline, to which it
   adds one entry.                                                          *)
C26_EditTouchesOnlyDetails ==
    [][(/\ HeldBoth
        /\ served' # served
        /\ last'.cmd = "EditBooking"
        /\ last'.code = 200)
       => LET old == db["b1"]
              new == db'["b1"]
          IN  /\ IsCustomer(old, last'.actor) \/ IsAdmin(last'.actor)
              /\ old.status \in {"pending", "confirmed"}
              /\ new = [old EXCEPT !.scheduledDate = new.scheduledDate,
                                   !.address = new.address,
                                   !.notes.customerNotes = new.notes.customerNotes,
                                   !.timeline = new.timeline]
              /\ Len(new.timeline) = Len(old.timeline) + 1
              /\ SubSeq(new.timeline, 1, Len(old.timeline)) = old.timeline]_vars

C26_Witness ==
    /\ Held
    /\ last.cmd = "EditBooking" /\ last.code = 200 /\ last.actor = Bk.customer
    /\ Bk.scheduledDate = "d2" /\ Bk.address.street = "st2"

(* C27: no command on an existing booking changes its customer, vendor,
   service or price.                                                        *)
C27_ParticipantsAndPriceFixed ==
    [][HeldBoth =>
        /\ db'["b1"].customer = db["b1"].customer
        /\ db'["b1"].vendor = db["b1"].vendor
        /\ db'["b1"].service = db["b1"].service
        /\ db'["b1"].price = db["b1"].price]_vars

\* a vendor who is not the booking's vendor changed it on the vendor route
C27_Witness ==
    /\ Held
    /\ last.cmd = "VendorStatus" /\ last.code = 200
    /\ last.actor # Bk.vendor
    /\ Bk.timeline[Len(Bk.timeline)].status = Bk.status

(* C28: in the first end-to-end run every request succeeds, the code the
   customer fetches is the code the step into verification-pending
   generated, and the run ends completed, payout_pending, without a code
   and with a timeline of five entries.                                     *)
C28_EndToEndRunSucceeds ==
    /\ [](served >= 1 => last.code \in {200, 201})
    /\ [](served = 4 => (Bk.status = "verification-pending"
                         /\ last.otp \in OtpCodes
                         /\ last.otp = Bk.completionOtp))
    /\ [][(served = 4 /\ served' = 5) =>
            (last'.cmd = "FetchOtp" /\ last'.otp = last.otp)]_vars
    /\ [](served = 6 => /\ Bk.status = "completed"
                        /\ Bk.payment.status = "payout_pending"
                        /\ Bk.completionOtp = Undefined
                        /\ Len(Bk.timeline) = 5)

C28_Witness ==
    /\ served = 6
    /\ Held
    /\ last.cmd = "ChangeStatus" /\ last.actor = "vend" /\ last.code = 200
    /\ Bk.status = "completed" /\ Len(Bk.timeline) = 5

(* C29: a successful dispute publishes new-dispute to the room of every
   admin, a successful resolution dispute-resolved to the customer's and
   the vendor's room, both with the record already persisted; a dispute or
   a resolution that fails publishes nothing.                               *)
C29_DisputeEventsReachTheirRooms ==
    (Held /\ last.cmd \in {"RaiseDispute", "ResolveDispute"}) =>
        /\ (last.cmd = "RaiseDispute" /\ last.code = 200 /\ wire.io = "up") =>
            /\ {e.room : e \in wire.events} = Admins
            /\ \A e \in wire.events : e.name = "new-dispute"
            /\ Bk.status = "reported" /\ Bk.dispute.status = "open"
        /\ (last.cmd = "ResolveDispute" /\ last.code = 200 /\ wire.io = "up") =>
            /\ {e.room : e \in wire.events} = {Bk.customer, Bk.vendor}
            /\ \A e \in wire.events : e.name = "dispute-resolved"
            /\ Bk.dispute.status = "resolved"
        /\ last.code # 200 => wire.events = {}

C29_Witness ==
    /\ Held
    /\ last.cmd = "RaiseDispute" /\ last.code = 200
    /\ Cardinality(wire.events) = Cardinality(Admins)
    /\ Cardinality(Admins) > 1

(* C30: a request with the token of an inactive account is answered 401
   whatever it asks for, changes no booking and publishes nothing.          *)
C30_InactiveAccountRejected ==
    [][(served' # served /\ last'.actor \notin active)
       => /\ last'.code = 401
          /\ db' = db
          /\ wire'.events = {}
          /\ wire'.mail = Undefined]_vars

C30_Witness ==
    /\ Held
    /\ last.actor \in Users \ active
    /\ last.actor \in {Bk.customer, Bk.vendor}
    /\ last.code = 401

(* C31: a connection is a member only of the room named by the account that
   opened it, no connection joins another user's room, and only the engine
   (a served request), never a client connection, publishes booking events
   into a user's room. *)
C31_RoomsAreOwnAndOnlyEnginePublishes ==
    /\ [](\A k \in Connections : rooms[k] \subseteq {Owner[k]})
    /\ [][wire'.events # wire.events => served' = served + 1]_vars

(* C32: the completion code is accepted only inside its validity window: a
   vendor's ChangeStatus(completed, otp) with the matching code, sent after
   completionOtpExpires, fails and leaves the booking verification-pending:
   once the window has passed, no ChangeStatus of the vendor completes it.  *)
C32_ExpiredCodeRejected ==
    [][(/\ HeldBoth
        /\ db["b1"].status = "verification-pending"
        /\ db["b1"].completionOtp # Undefined
        /\ db["b1"].completionOtpExpires < now
        /\ last'.cmd = "ChangeStatus"
        /\ IsVendor(db["b1"], last'.actor))
       => db'["b1"].status # "completed"]_vars

(* C34: the completion code is disclosed only to the customer: no response
   to the booking's vendor (the ChangeStatus response, the booking by id,
   the booking lists) carries completionOtp. *)
C34_NoCodeInVendorResponse ==
    (Held /\ IsVendor(Bk, last.actor)) => last.otp \notin OtpCodes

(* C33: a booking whose dispute is open has status reported; while the
   dispute is open no ChangeStatus, on either status route, changes the
   status; only ResolveDispute moves a booking out of reported. *)
C33_OpenDisputeHoldsReported ==
    /\ [](Held => (Bk.dispute.status = "open" => Bk.status = "reported"))
    /\ [][(HeldBoth /\ db["b1"].dispute.status = "open"
            /\ last'.cmd \in {"ChangeStatus", "VendorStatus"})
           => db'["b1"].status = db["b1"].status]_vars
    /\ [][(HeldBoth /\ db["b1"].status = "reported"
            /\ db'["b1"].status # "reported")
           => last'.cmd = "ResolveDispute"]_vars

(* C35: payment payout_pending implies status completed or reported, and
   payment refund_pending implies status cancelled, in every persisted
   record, so no command changes the status and leaves such a payment
   behind. *)
C35_PaymentAgreesWithStatus ==
    Held =>
        /\ Bk.payment.status = "payout_pending"
                => Bk.status \in {"completed", "reported"}
        /\ Bk.payment.status = "refund_pending" => Bk.status = "cancelled"

(* C39: the dispute status is monotonic: once resolved it never returns to
   open, and the resolution text, the resolver and resolvedAt are never
   erased or overwritten by a later RaiseDispute or ResolveDispute. *)
C39_ResolvedDisputeIsKept ==
    [][(HeldBoth /\ db["b1"].dispute.status = "resolved")
       => /\ db'["b1"].dispute.status = "resolved"
          /\ db'["b1"].dispute.resolution = db["b1"].dispute.resolution
          /\ db'["b1"].dispute.resolvedBy = db["b1"].dispute.resolvedBy
          /\ db'["b1"].dispute.resolvedAt = db["b1"].dispute.resolvedAt]_vars

(* C40: after every successful CreateBooking, ChangeStatus, EditBooking,
   RaiseDispute and ResolveDispute the status of the last timeline entry
   equals the persisted status. *)
C40_LastEntryIsStatus ==
    [][("b1" \in DOMAIN db' /\ db' # db
        /\ last'.cmd \in {"CreateBooking", "ChangeStatus", "EditBooking",
                          "RaiseDispute", "ResolveDispute"})
       => /\ Len(db'["b1"].timeline) > 0
          /\ db'["b1"].timeline[Len(db'["b1"].timeline)].status
                = db'["b1"].status]_vars

\* slot r finishes a request of the command with a write, after the other
\* slot finished a ChangeStatus
LandsAfterChangeStatus(r, cmd) ==
    /\ inflight[r].pc = "loaded"
    /\ inflight'[r].pc = "done"
    /\ inflight[r].req.cmd = cmd
    /\ db' # db
    /\ \E r2 \in Slots \ {r} : /\ inflight[r2].pc = "done"
                                /\ inflight[r2].req.cmd = "ChangeStatus"

(* C36: when EditBooking overlaps a ChangeStatus on the same booking, the
   edit is persisted only if the stored status at the time of the write is
   pending or confirmed. *)
C36_EditLandsOnEditableStatus ==
    [][\A r \in Slots :
        LandsAfterChangeStatus(r, "EditBooking")
            => db["b1"].status \in {"pending", "confirmed"}]_vars

(* C37: when the customer and the vendor raise a dispute on the same booking
   at the same time, at most one call succeeds and the timeline holds one
   reported entry. *)
C37_OneDisputeWins ==
    (/\ \A r \in Slots : /\ inflight[r].pc = "done"
                         /\ inflight[r].req.cmd = "RaiseDispute"
     /\ {inflight[r].req.actor : r \in Slots} = {"cust", "vend"})
    => /\ \E r \in Slots : inflight[r].code # 200
       /\ Cardinality({i \in DOMAIN Bk.timeline :
                            Bk.timeline[i].status = "reported"}) <= 1

(* C38: when FetchOtp regenerates the code while a ChangeStatus moves the
   booking out of verification-pending, the regenerated code is written only
   to a record that is still verification-pending, so no record ends with a
   completionOtp and another status. *)
C38_RegeneratedCodeLandsOnVerificationPending ==
    [][\A r \in Slots :
        LandsAfterChangeStatus(r, "FetchOtp")
            => /\ db["b1"].status = "verification-pending"
               /\ ~(/\ db'["b1"].completionOtp # Undefined
                     /\ db'["b1"].status # "verification-pending")]_vars

====
